---- MODULE Spec2Model ----
(***************************************************************************)
(* Model of the question-generation and answer-validation workflows of     *)
(* langgraph_workflow.py together with the collaborators they call         *)
(* (store_questions_answers.py, validation_api.py, embeddings.py,          *)
(* vector_store.py, llm_question_generator.py).                            *)
(*                                                                         *)
(* Python values are modelled by their observable behaviour:               *)
(*   - a str is a sequence of one-character strings;                       *)
(*   - a JSON scalar (str / int / bool) is a record [t, s] holding its     *)
(*     Python type tag and its str() form;                                 *)
(*   - None / missing / empty (all falsy) is "" or 0 or <<>>.              *)
(***************************************************************************)
EXTENDS Integers, Sequences, FiniteSets, TLC

VARIABLES
    runs,       \* slot -> the pipeline run executing in it (state record, pc, trace)
    files,      \* temporary files that exist on disk
    index,      \* vector store: sequence of documents [book_id, chapter_name]
    top1,       \* book_id of the document nearest to the probe "Sample text"
    db,         \* table questions_and_answers: sequence of rows
    nextRow,    \* source of fresh row_id tokens
    started,    \* number of runs started so far
    lastRow,    \* history: row_id of the last successful response per (user, book)
    cursor,     \* the one cursor of the StoreQuestionsAnswers singleton: its pending result
    unitIn,     \* unit harness: the arguments of the function under test
    unitOut,    \* unit harness: what the function returned
    unitPc      \* unit harness: "off", "ready" or "done"

vars == <<runs, files, index, top1, db, nextRow, started, lastRow, cursor, unitIn, unitOut, unitPc>>

pipeVars == <<runs, files, index, top1, db, nextRow, started, lastRow, cursor>>
unitVars == <<unitIn, unitOut, unitPc>>

----------------------------------------------------------------------------
(* Python strings                                                          *)

UpperAZ == <<"A","B","C","D","E","F","G","H","I","J","K","L","M",
             "N","O","P","Q","R","S","T","U","V","W","X","Y","Z">>
LowerAZ == <<"a","b","c","d","e","f","g","h","i","j","k","l","m",
             "n","o","p","q","r","s","t","u","v","w","x","y","z">>

Whitespace == {" "}
Digits == {"0","1","2","3","4","5","6","7","8","9"}

\* str.lower() on one character
LowerChar(c) ==
    IF \E i \in 1..26 : UpperAZ[i] = c
    THEN LowerAZ[CHOOSE i \in 1..26 : UpperAZ[i] = c]
    ELSE c

\* str.lower()
Lower(s) == [i \in 1..Len(s) |-> LowerChar(s[i])]

RECURSIVE LStrip(_)
LStrip(s) == IF s # <<>> /\ Head(s) \in Whitespace THEN LStrip(Tail(s)) ELSE s

RECURSIVE RStrip(_)
RStrip(s) ==
    IF s # <<>> /\ s[Len(s)] \in Whitespace
    THEN RStrip(SubSeq(s, 1, Len(s) - 1))
    ELSE s

\* str.strip()
Strip(s) == RStrip(LStrip(s))

DigitVal(c) == CHOOSE d \in 0..9 : <<"0","1","2","3","4","5","6","7","8","9">>[d + 1] = c

RECURSIVE DigitsVal(_)
DigitsVal(s) ==
    IF s = <<>> THEN 0
    ELSE 10 * DigitsVal(SubSeq(s, 1, Len(s) - 1)) + DigitVal(s[Len(s)])

IsDigits(s) == s # <<>> /\ \A i \in 1..Len(s) : s[i] \in Digits

\* int(s) for a str s: surrounding whitespace is ignored, one optional sign,
\* then decimal digits (leading zeros allowed); anything else is ValueError.
ParseInt(s) ==
    LET t == Strip(s)
        body == IF t # <<>> /\ Head(t) \in {"+", "-"} THEN Tail(t) ELSE t
        neg == t # <<>> /\ Head(t) = "-"
    IN  IF IsDigits(body)
        THEN [ok |-> TRUE, val |-> IF neg THEN 0 - DigitsVal(body) ELSE DigitsVal(body)]
        ELSE [ok |-> FALSE, val |-> 0]

RECURSIVE DecStr(_)
\* str(n) for an int n >= 0
DecStr(n) ==
    IF n < 10 THEN <<(<<"0","1","2","3","4","5","6","7","8","9">>)[n + 1]>>
    ELSE DecStr(n \div 10) \o DecStr(n % 10)

\* JSON scalars with their str() form
StrV(s) == [t |-> "str", s |-> s]
IntV(n) == [t |-> "int", s |-> DecStr(n)]
BoolV(b) == [t |-> "bool", s |-> IF b THEN <<"T","r","u","e">> ELSE <<"F","a","l","s","e">>]

\* str(v)
PyStr(v) == v.s

\* "needle in s" for strings
Contains(s, needle) ==
    \E i \in 1..(Len(s) - Len(needle) + 1) : SubSeq(s, i, i + Len(needle) - 1) = needle

----------------------------------------------------------------------------
(* Question records and the answer validator                               *)

MCQ == <<"M","C","Q">>
TRUEFALSE == <<"T","r","u","e","/","F","a","l","s","e">>
TEXT == <<"T","e","x","t">>
FILLBLANK == <<"F","i","l","l","_","i","n","_","t","h","e","_","b","l","a","n","k","s">>

mcq == <<"m","c","q">>
truefalse == <<"t","r","u","e","/","f","a","l","s","e">>
true == <<"t","r","u","e">>

\* a key that a dict does not hold: d["key"] raises KeyError
NoKey == [t |-> "absent", s |-> <<>>]

\* Python None, with its str() form
NoneV == [t |-> "none", s |-> <<"N","o","n","e">>]

\* n == v for a Python int n and a JSON scalar v (bool is an int subtype)
PyEqInt(n, v) ==
    \/ v.t = "int" /\ n >= 0 /\ v.s = DecStr(n)
    \/ v.t = "bool" /\ ((n = 1 /\ v = BoolV(TRUE)) \/ (n = 0 /\ v = BoolV(FALSE)))

RECURSIVE FirstMatchExact(_, _, _)
\* a comparison that trims but keeps the case of both sides
FirstMatchExact(options, correct_answer, idx) ==
    IF options = <<>> THEN NoneV
    ELSE IF Strip(Head(options)) = Strip(PyStr(correct_answer))
         THEN IntV(idx)
         ELSE FirstMatchExact(Tail(options), correct_answer, idx + 1)

RECURSIVE FirstMatch(_, _, _)
\* the enumerate loop with break: the first 0-based idx (counted from `idx`)
\* whose option equals the answer after str().strip().lower() of both
FirstMatch(options, correct_answer, idx) ==
    IF options = <<>> THEN NoneV
    ELSE IF Lower(Strip(Head(options))) = Lower(Strip(PyStr(correct_answer)))
         THEN IntV(idx)
         ELSE FirstMatch(Tail(options), correct_answer, idx + 1)

\* correct_index of one stored question
CorrectIndex(qa) ==
    IF Lower(qa.question_type) = mcq
    THEN FirstMatch(qa.options, qa.answer, 0)
    ELSE NoneV

\* the question_map entry built for one stored question of one chapter
QuestionData(chapter, qa) ==
    [question |-> qa.question,
     question_type |-> qa.question_type,
     chapter_name |-> chapter.chapter_name,
     chapter_id |-> chapter.chapter_number,
     correct_answer |-> IF Lower(qa.question_type) = mcq THEN CorrectIndex(qa) ELSE qa.answer,
     options |-> IF Lower(qa.question_type) = mcq THEN qa.options ELSE <<>>]

\* str(qa.get("question_id")): 0 stands for a question without the key
QuestionKey(qa) == IF qa.question_id = 0 THEN NoneV.s ELSE DecStr(qa.question_id)

RECURSIVE FlatEntries(_)
\* the (key, entry) pairs in the order the two nested loops visit them
FlatEntries(chapters_data) ==
    IF chapters_data = <<>> THEN <<>>
    ELSE LET chapter == Head(chapters_data)
         IN  [i \in 1..Len(chapter.questions_answers) |->
                 [key |-> QuestionKey(chapter.questions_answers[i]),
                  data |-> QuestionData(chapter, chapter.questions_answers[i])]]
             \o FlatEntries(Tail(chapters_data))

\* question_map: a later entry with the same key replaces an earlier one
QuestionMap(chapters_data) ==
    LET flat == FlatEntries(chapters_data)
        keys == {flat[i].key : i \in 1..Len(flat)}
        last(k) == CHOOSE i \in 1..Len(flat) :
                       /\ flat[i].key = k
                       /\ \A j \in 1..Len(flat) : flat[j].key = k => j <= i
    IN  [k \in keys |-> flat[last(k)].data]

\* validate_locally: "True", "False" or "None"
\* a grader that reads the submitted number as a 1-based position
validate_locally_OneBased(question_type, user_answer, correct_answer_index) ==
    LET qt == Lower(question_type)
        user_answer_clean == Lower(Strip(PyStr(user_answer)))
        user_index == ParseInt(user_answer_clean)
    IN  IF qt = mcq
        THEN IF user_index.ok /\ PyEqInt(user_index.val - 1, correct_answer_index)
             THEN "True" ELSE "False"
        ELSE IF qt = truefalse
        THEN IF user_answer_clean = Lower(Strip(PyStr(correct_answer_index)))
             THEN "True" ELSE "False"
        ELSE "None"

validate_locally(question_type, user_answer, correct_answer_index) ==
    LET qt == Lower(question_type)
        user_answer_clean == Lower(Strip(PyStr(user_answer)))
        user_index == ParseInt(user_answer_clean)
    IN  IF qt = mcq
        THEN IF user_index.ok /\ PyEqInt(user_index.val, correct_answer_index)
             THEN "True" ELSE "False"
        ELSE IF qt = truefalse
        THEN IF user_answer_clean = Lower(Strip(PyStr(correct_answer_index)))
             THEN "True" ELSE "False"
        ELSE "None"

\* a grader that lets an unparseable reply escape as an exception
validate_with_groq_Strict(question_text, user_answer, correct_answer, llm) ==
    IF llm.kind \in {"raise", "badjson", "notdict"}
    THEN [raised |-> TRUE, score |-> 0, is_correct |-> "false"]
    ELSE [raised |-> FALSE,
          score |-> llm.score,
          is_correct |-> IF Lower(PyStr(llm.is_correct)) = true THEN "true" ELSE "false"]

\* validate_with_groq for one response `llm` of the model endpoint:
\*   kind "raise"   the call fails (no API key, transport error): HTTPException
\*   kind "badjson" the content is not JSON: JSONDecodeError
\*   kind "notdict" the content is JSON but no object: AttributeError
\*   kind "obj"     a JSON object with score and is_correct
validate_with_groq(question_text, user_answer, correct_answer, llm) ==
    IF llm.kind = "raise"
    THEN [raised |-> TRUE, score |-> 0, is_correct |-> "false"]
    ELSE IF llm.kind \in {"badjson", "notdict"}
    THEN [raised |-> FALSE, score |-> 0, is_correct |-> "false"]
    ELSE [raised |-> FALSE,
          score |-> llm.score,
          is_correct |-> IF Lower(PyStr(llm.is_correct)) = true THEN "true" ELSE "false"]

\* the body of the for loop of validate_answers for one known question
GradeEntry(question_id, question_data, user_answer_text, llm) ==
    LET qtype == Lower(question_data.question_type)
        correct_ans == question_data.correct_answer
        local == validate_locally(qtype, user_answer_text, correct_ans)
        remote == validate_with_groq(question_data.question, user_answer_text, correct_ans, llm)
    IN  [raised |-> IF qtype = mcq THEN FALSE ELSE remote.raised,
         question_id |-> question_id,
         question |-> question_data.question,
         question_type |-> question_data.question_type,
         chapter_name |-> question_data.chapter_name,
         chapter_id |-> question_data.chapter_id,
         correct_answer |-> correct_ans,
         user_answer |-> user_answer_text,
         options |-> IF qtype = mcq THEN question_data.options ELSE <<>>,
         score |-> IF qtype = mcq THEN (IF local = "True" THEN 10 ELSE 0) ELSE remote.score,
         is_correct |-> IF qtype = mcq
                        THEN (IF local = "True" THEN "true" ELSE "false")
                        ELSE remote.is_correct]

----------------------------------------------------------------------------
(* Bounds and input domains                                                *)

MaxRuns == 2          \* pipeline runs started in one behaviour
MaxAnswers == 2       \* entries of a submitted user_answers_list

Slots == {1}
Users == {"u1", "u2"}
Books == {"b1", "b2"}
Keys == Users \X Books
\* books a caller asks questions for ("b2" is a book indexed earlier)
InputBooks == {"b1"}

\* question_id_counter = 100
FirstQuestionId == 100
\* len(formatted_questions) >= 40
MaxListed == 40

\* uploaded / fetched bytes: 0 is None or b"", 1..3 are PDF files
Pdfs == 1..3
\* what extract_and_chunk_text finds in a PDF: its chapter names in order of
\* appearance; none at all makes it raise ValueError
PdfChapters(content) ==
    CASE content = 1 -> <<"c1">>
      [] content = 2 -> <<"c1", "c2">>
      [] OTHER -> <<>>

S3Ok == <<"s","3",":","/","/","b","/","k">>
S3NoKey == <<"s","3",":","/","/","b">>
S3BadScheme == <<"h","t","t","p",":","/","/","b","/","k">>
S3Prefix == <<"s","3",":","/","/">>

\* (file_content, s3_url) pairs a caller may send
Sources ==
    {[file_content |-> 0, s3_url |-> <<>>],
     [file_content |-> 1, s3_url |-> S3Ok],
     [file_content |-> 1, s3_url |-> <<>>],
     [file_content |-> 2, s3_url |-> <<>>],
     [file_content |-> 3, s3_url |-> <<>>],
     [file_content |-> 0, s3_url |-> S3Ok],
     [file_content |-> 0, s3_url |-> S3NoKey],
     [file_content |-> 0, s3_url |-> S3BadScheme]}

\* questions a chapter's model output may hold (question_id 0: not assigned yet)
QaMcq == [question |-> <<"q","1">>, question_type |-> MCQ,
          options |-> << <<"a">>, <<"b">>, <<"c">>, <<"d">> >>,
          answer |-> StrV(<<"B">>), question_id |-> 0]
QaTf == [question |-> <<"q","2">>, question_type |-> TRUEFALSE,
         options |-> <<>>, answer |-> BoolV(TRUE), question_id |-> 0]
QaText == [question |-> <<"q","3">>, question_type |-> TEXT,
           options |-> <<>>, answer |-> StrV(<<"x">>), question_id |-> 0]

\* what the model returns for one chapter prompt
ChapterOutputs == {"empty", "badjson", "nokeys", "ok"}
OutputQuestions(out) == <<QaMcq, QaTf, QaText>>

\* what the model returns for one grading prompt
LLMResponses ==
    {[kind |-> "raise", score |-> 0, is_correct |-> NoneV],
     [kind |-> "badjson", score |-> 0, is_correct |-> NoneV],
     [kind |-> "obj", score |-> 10, is_correct |-> BoolV(TRUE)],
     [kind |-> "obj", score |-> 0, is_correct |-> BoolV(FALSE)]}

\* entries of a submitted batch; the payload is an unchecked dict, so an entry
\* may lack the "question_id" key
AnswerEntries ==
    {[question_id |-> IntV(100), user_answer |-> StrV(<<"1">>)],
     [question_id |-> StrV(<<"1","0","1">>), user_answer |-> StrV(<<"T","R","U","E">>)],
     [question_id |-> IntV(999), user_answer |-> StrV(<<"1">>)],
     [question_id |-> NoKey, user_answer |-> StrV(<<"1">>)]}
AnswerLists ==
    {<<>>} \cup UNION {[1..n -> AnswerEntries] : n \in 1..MaxAnswers}

----------------------------------------------------------------------------
(* GraphState and runs                                                     *)

NoResponse ==
    [user_id |-> "", book_id |-> "", created_on |-> 0, status |-> "", row_id |-> 0,
     list |-> <<>>]

EmptyState ==
    [book_id |-> "", user_id |-> "", file_content |-> 0, s3_url |-> <<>>,
     total_questions |-> 0, file_path |-> 0, embeddings_exist |-> FALSE,
     questions_answers |-> <<>>, row_id |-> 0, created_on |-> 0, error |-> "",
     chapters_data |-> <<>>, user_answers_list |-> <<>>, validated_results |-> <<>>,
     api_response |-> NoResponse]

IdleRun ==
    [kind |-> "none", pc |-> "idle", st |-> EmptyState, trace |-> <<>>,
     no |-> 0, prior |-> 0, indexed |-> FALSE, wrote |-> FALSE, http |-> 0,
     detail |-> <<>>, cause |-> ""]

NoRow == [chapters |-> <<>>, row_id |-> 0, time |-> 0]

\* the node `step` ran on a state whose error field was err_in
Ran(r, step) == Append(runs[r].trace, [step |-> step, err_in |-> runs[r].st.error])

\* a merge in which fetch_stored_questions starts from a state without error
Advance_Clearing(r, step, st, next) ==
    runs' = [runs EXCEPT ![r] =
                [@ EXCEPT !.st = IF step = "fetch_stored_questions" /\ st.error = runs[r].st.error
                                 THEN [st EXCEPT !.error = ""] ELSE st,
                          !.pc = next, !.trace = Ran(r, step)]]

\* the engine merges the node's return value and moves to `next`
Advance(r, step, st, next) ==
    runs' = [runs EXCEPT ![r] = [@ EXCEPT !.st = st, !.pc = next, !.trace = Ran(r, step)]]

\* a collaborator call inside a node raised and the node does not catch it:
\* the exception leaves invoke()
Raise(r, step) ==
    runs' = [runs EXCEPT ![r] = [@ EXCEPT !.pc = "raised", !.trace = Ran(r, step),
                                          !.cause = "collaborator"]]

\* a statement of the node itself raised: the exception leaves invoke()
RaiseInNode(r, step, exception) ==
    runs' = [runs EXCEPT ![r] = [@ EXCEPT !.pc = "raised", !.trace = Ran(r, step),
                                          !.cause = exception]]

IndexedBooks == {index[i].book_id : i \in 1..Len(index)}

----------------------------------------------------------------------------
(* Collaborators                                                           *)

\* VectorStorePGVector.check_if_record_exist: the single nearest document to
\* the probe (k=1, no filter on book_id) belongs to book_id
check_if_record_exist(book_id) == top1 = book_id

\* the chapter names of one book in the index, deduplicated by first appearance
RECURSIVE ChapterNames(_, _)
ChapterNames(docs, book_id) ==
    IF docs = <<>> THEN <<>>
    ELSE LET rest == ChapterNames(SubSeq(docs, 1, Len(docs) - 1), book_id)
             d == docs[Len(docs)]
         IN  IF d.book_id = book_id /\ \A i \in 1..Len(rest) : rest[i] # d.chapter_name
             THEN Append(rest, d.chapter_name)
             ELSE rest

\* LLMQuestionGenerator.generate_questions_for_book, given the model's output
\* outs[i] for the i-th chapter: a chapter whose output is empty, is no JSON or
\* lacks a key is skipped (continue)
RECURSIVE FormatChapters(_, _, _)
FormatChapters(chapter_names, outs, chapter_number) ==
    IF chapter_number > Len(chapter_names) THEN <<>>
    ELSE (IF outs[chapter_number] = "ok"
          THEN <<[chapter_name |-> chapter_names[chapter_number],
                  chapter_number |-> chapter_number,
                  questions_answers |-> OutputQuestions(outs[chapter_number])]>>
          ELSE <<>>)
         \o FormatChapters(chapter_names, outs, chapter_number + 1)

\* the orders in which a similarity search may return the chapters of a book:
\* the ranking is by distance to the query text, not by position in the book
RetrievedOrders(book_id) ==
    LET names == ChapterNames(index, book_id)
        n == Len(names)
    IN  {[i \in 1..n |-> names[p[i]]] :
            p \in {q \in [1..n -> 1..n] : \A i, j \in 1..n : q[i] = q[j] => i = j}}

\* generate_questions_for_book for the chapter names as retrieved
generate_questions_for_book(chapter_names, outs) ==
    FormatChapters(chapter_names, outs, 1)

\* the numbering loop of StoreQuestionsAnswers.store_questions_answers
RECURSIVE NumberChaptersPerChapter(_, _, _)
\* a numbering that starts every chapter again at the same counter
NumberChaptersPerChapter(qa_data, chapter_number, question_id_counter) ==
    IF qa_data = <<>> THEN <<>>
    ELSE LET chapter == Head(qa_data)
             n == Len(chapter.questions_answers)
             qas == [i \in 1..n |->
                        [chapter.questions_answers[i]
                            EXCEPT !.question_id = question_id_counter + i - 1]]
         IN  <<[chapter EXCEPT !.chapter_number = chapter_number,
                               !.questions_answers = qas]>>
             \o NumberChaptersPerChapter(Tail(qa_data), chapter_number + 1,
                                         question_id_counter)

RECURSIVE NumberChapters(_, _, _)
NumberChapters(qa_data, chapter_number, question_id_counter) ==
    IF qa_data = <<>> THEN <<>>
    ELSE LET chapter == Head(qa_data)
             n == Len(chapter.questions_answers)
             qas == [i \in 1..n |->
                        [chapter.questions_answers[i]
                            EXCEPT !.question_id = question_id_counter + i - 1]]
         IN  <<[chapter EXCEPT !.chapter_number = chapter_number,
                               !.questions_answers = qas]>>
             \o NumberChapters(Tail(qa_data), chapter_number + 1, question_id_counter + n)

\* the row written by INSERT ... ON CONFLICT (user_id, book_id) DO UPDATE:
\* questions_answers, time and row_id all come from the new values
UpsertRow(old, chapters, created_on, row_id) ==
    [chapters |-> chapters, row_id |-> row_id, time |-> created_on]

\* StoreQuestionsAnswers.fetch_questions_answers
\* the cursor after an INSERT (or before any statement): fetchone raises
NoResult == [result |-> FALSE, row |-> NoRow]
\* the cursor after the row of a SELECT was fetched: fetchone returns None
Exhausted == [result |-> TRUE, row |-> NoRow]

\* what fetch_questions_answers returns for the row fetchone gave it
StoredData(row) ==
    IF row.row_id # 0
    THEN [chapters |-> row.chapters, row_id |-> row.row_id, created_on |-> row.time]
    ELSE [chapters |-> <<>>, row_id |-> 0, created_on |-> 0]

fetch_questions_answers(user_id, book_id) == StoredData(db[<<user_id, book_id>>])

\* validation_api.fetch_questions_from_db: the chapters of the row with this
\* row_id, or None (falsy, <<>>)
fetch_questions_from_db(row_id) ==
    IF \E k \in Keys : db[k].row_id = row_id /\ row_id # 0
    THEN db[CHOOSE k \in Keys : db[k].row_id = row_id].chapters
    ELSE <<>>

----------------------------------------------------------------------------
(* Question-generation workflow                                            *)

\* api_langgraph.generate_questions up to question_generation_app.invoke
StartGeneration(r) ==
    /\ runs[r].pc \in {"idle", "returned"}
    /\ started < MaxRuns
    /\ \E user_id \in Users \cup {""}, book_id \in InputBooks \cup {""},
          src \in Sources, total_questions \in {0, 5} :
          runs' = [runs EXCEPT ![r] =
                      [kind |-> "gen", pc |-> "prepare_input",
                       st |-> [EmptyState EXCEPT !.book_id = book_id, !.user_id = user_id,
                                                 !.file_content = src.file_content,
                                                 !.s3_url = src.s3_url,
                                                 !.total_questions = total_questions],
                       trace |-> <<>>,
                       no |-> started + 1,
                       prior |-> IF <<user_id, book_id>> \in Keys
                                 THEN lastRow[<<user_id, book_id>>] ELSE 0,
                       indexed |-> book_id \in IndexedBooks,
                       wrote |-> FALSE, http |-> 0, detail |-> <<>>, cause |-> ""]]
    /\ started' = started + 1
    /\ UNCHANGED <<files, index, top1, db, nextRow, lastRow, cursor, unitVars>>

prepare_input(r) ==
    LET st == runs[r].st
        fail(msg) == Advance(r, "prepare_input", [st EXCEPT !.error = msg], "check_embeddings")
        \* NamedTemporaryFile(delete=False) creates the file, then write() either
        \* succeeds (file_path is set) or raises with temp_file_path still None
        materialize(content) ==
            \/ /\ files' = files \cup {[path |-> runs[r].no, content |-> content]}
               /\ Advance(r, "prepare_input", [st EXCEPT !.file_path = runs[r].no],
                          "check_embeddings")
            \/ /\ files' = files \cup {[path |-> runs[r].no, content |-> 0]}
               /\ fail("Error in prepare_input")
    IN
    /\ runs[r].pc = "prepare_input"
    /\ IF st.file_content = 0 /\ st.s3_url = <<>>
       THEN fail("Either an uploaded file or an S3 URL is required") /\ UNCHANGED files
       ELSE IF st.file_content # 0 /\ st.s3_url # <<>>
       THEN fail("Provide either an uploaded file or an S3 URL, not both") /\ UNCHANGED files
       ELSE IF st.s3_url # <<>>
       THEN IF \/ Len(st.s3_url) < Len(S3Prefix)
               \/ SubSeq(st.s3_url, 1, Len(S3Prefix)) # S3Prefix
               \/ ~Contains(SubSeq(st.s3_url, Len(S3Prefix) + 1, Len(st.s3_url)), <<"/">>)
            THEN fail("Error in prepare_input") /\ UNCHANGED files
            ELSE \/ fail("Error in prepare_input") /\ UNCHANGED files   \* get_object raises
                 \/ \E content \in Pdfs : materialize(content)
       ELSE materialize(st.file_content)
    /\ UNCHANGED <<index, top1, db, nextRow, started, lastRow, cursor, unitVars>>

\* decide_to_generate_embeddings
\* a router that does not look at error
decide_IgnoringError(st) ==
    IF st.embeddings_exist THEN "fetch_stored_questions"
    ELSE "generate_embeddings"

decide_to_generate_embeddings(st) ==
    IF st.error # "" THEN "END"
    ELSE IF st.embeddings_exist THEN "fetch_stored_questions"
    ELSE "generate_embeddings"

check_embeddings(r) ==
    LET st == runs[r].st
    IN
    /\ runs[r].pc = "check_embeddings"
    /\ IF st.book_id = ""
       THEN LET st2 == [st EXCEPT !.error = "book_id is missing for check_embeddings"]
            IN  Advance(r, "check_embeddings", st2, decide_to_generate_embeddings(st2))
       ELSE \/ Raise(r, "check_embeddings")            \* the index query raises
            \/ LET st2 == [st EXCEPT !.embeddings_exist = check_if_record_exist(st.book_id)]
               IN  Advance(r, "check_embeddings", st2, decide_to_generate_embeddings(st2))
    /\ UNCHANGED <<files, index, top1, db, nextRow, started, lastRow, cursor, unitVars>>

\* os.remove(file_path) if os.path.exists(file_path)
RemoveFile(file_path) == {f \in files : f.path # file_path}

FileContent(file_path) == (CHOOSE f \in files : f.path = file_path).content

generate_embeddings(r) ==
    LET st == runs[r].st
        failed == [st EXCEPT !.error = "Error generating embeddings"]
        done(s) == Advance(r, "generate_embeddings", s, "generate_questions")
    IN
    /\ runs[r].pc = "generate_embeddings"
    /\ IF st.file_path = 0 \/ st.book_id = ""
       THEN /\ done([st EXCEPT !.error = "file_path or book_id is missing for generate_embeddings"])
            /\ UNCHANGED <<files, index, top1>>
       ELSE /\ files' = RemoveFile(st.file_path)                        \* finally
            /\ \/ done(failed) /\ UNCHANGED <<index, top1>>             \* a collaborator raises
               \/ /\ check_if_record_exist(st.book_id)                  \* create_embeddings returns early
                  /\ done(st) /\ UNCHANGED <<index, top1>>
               \/ /\ ~check_if_record_exist(st.book_id)
                  /\ LET chapters == PdfChapters(FileContent(st.file_path))
                     IN  IF chapters = <<>>
                         THEN done(failed) /\ UNCHANGED <<index, top1>>  \* no chapter titles
                         ELSE /\ index' = index \o [i \in 1..Len(chapters) |->
                                             [book_id |-> st.book_id, chapter_name |-> chapters[i]]]
                              \* the new documents may or may not be nearest to the probe
                              /\ top1' \in (IF top1 = "" THEN {st.book_id} ELSE {top1, st.book_id})
                              /\ done(st)
    /\ UNCHANGED <<db, nextRow, started, lastRow, cursor, unitVars>>

generate_questions(r) ==
    LET st == runs[r].st
        done(s) == Advance(r, "generate_questions", s, "store_questions")
    IN
    /\ runs[r].pc = "generate_questions"
    /\ IF st.book_id = "" \/ st.user_id = ""
       THEN done([st EXCEPT !.error = "book_id or user_id is missing for generate_questions"])
       ELSE IF st.total_questions # 0
       \* generate_questions_for_book takes no total_questions keyword: TypeError
       THEN done([st EXCEPT !.error = "Error generating questions"])
       ELSE \/ done([st EXCEPT !.error = "Error generating questions"])   \* retrieval raises
            \/ \E chapter_names \in RetrievedOrders(st.book_id) :
                  \E outs \in [1..Len(chapter_names) -> ChapterOutputs] :
                      done([st EXCEPT !.questions_answers =
                                          generate_questions_for_book(chapter_names, outs)])
    /\ UNCHANGED <<files, index, top1, db, nextRow, started, lastRow, cursor, unitVars>>

store_questions(r) ==
    LET st == runs[r].st
        done(s) == Advance(r, "store_questions", s, "fetch_stored_questions")
        key == <<st.user_id, st.book_id>>
        \* the loop numbers the chapter and question objects of the state in place
        numbered == NumberChapters(st.questions_answers, 1, FirstQuestionId)
        st2 == [st EXCEPT !.questions_answers = numbered]
    IN
    /\ runs[r].pc = "store_questions"
    /\ IF st.user_id = "" \/ st.book_id = "" \/ st.questions_answers = <<>>
       THEN done([st EXCEPT !.error = "Missing data for storing questions"])
            /\ UNCHANGED <<db, nextRow, cursor>>
       ELSE \/ /\ done([st2 EXCEPT !.error = "Error storing questions"])   \* execute raises
               /\ UNCHANGED <<db, nextRow, cursor>>
            \/ /\ db' = [db EXCEPT ![key] = UpsertRow(@, numbered, nextRow, nextRow)]
               /\ nextRow' = nextRow + 1
               /\ cursor' = NoResult                      \* an INSERT leaves no result set
               /\ runs' = [runs EXCEPT ![r] =
                               [@ EXCEPT !.st = st2, !.pc = "fetch_stored_questions",
                                         !.trace = Ran(r, "store_questions"),
                                         !.wrote = TRUE]]
    /\ UNCHANGED <<files, index, top1, started, lastRow, unitVars>>

fetch_stored_questions(r) ==
    LET st == runs[r].st
        done(s) == Advance(r, "fetch_stored_questions", s, "format_api_response")
    IN
    /\ runs[r].pc = "fetch_stored_questions"
    /\ IF st.user_id = "" \/ st.book_id = ""
       THEN /\ done([st EXCEPT !.error = "Missing user_id or book_id for fetching questions"])
            /\ UNCHANGED cursor
       ELSE \/ /\ done([st EXCEPT !.error = "Error fetching stored questions"])  \* query raises
               /\ UNCHANGED cursor
            \/ LET stored_data == fetch_questions_answers(st.user_id, st.book_id)
               IN  \* stored_data is a non-empty dict holding "chapters" in both cases
                   /\ done([st EXCEPT !.questions_answers = stored_data.chapters,
                                      !.row_id = stored_data.row_id,
                                      !.created_on = stored_data.created_on])
                   /\ cursor' = Exhausted                 \* execute, then fetchone
    /\ UNCHANGED <<files, index, top1, db, nextRow, started, lastRow, unitVars>>

\* format_api_response.determine_question_type; a question without options has
\* no "options" key
determine_question_type(qa) ==
    IF qa.options # <<>> THEN MCQ
    ELSE IF qa.answer.t = "bool" THEN TRUEFALSE
    ELSE IF Contains(qa.question, <<"_","_","_">>) THEN FILLBLANK
    ELSE TEXT

RECURSIVE FormatChapter_Early(_, _, _)
\* an inner loop that breaks one question too early
FormatChapter_Early(chapter, qas, formatted_questions) ==
    IF qas = <<>> THEN formatted_questions
    ELSE LET qa == Head(qas)
             question_data ==
                 [question |-> qa.question,
                  question_type |-> determine_question_type(qa),
                  chapter_name |-> chapter.chapter_name,
                  chapter_number |-> chapter.chapter_number,
                  question_id |-> qa.question_id,
                  options |-> qa.options]
             appended == Append(formatted_questions, question_data)
         IN  IF Len(appended) >= MaxListed - 1 THEN appended
             ELSE FormatChapter_Early(chapter, Tail(qas), appended)

RECURSIVE FormatChapter(_, _, _)
\* the inner loop: append question_data, break once 40 are collected
FormatChapter(chapter, qas, formatted_questions) ==
    IF qas = <<>> THEN formatted_questions
    ELSE LET qa == Head(qas)
             question_data ==
                 [question |-> qa.question,
                  question_type |-> determine_question_type(qa),
                  chapter_name |-> chapter.chapter_name,
                  chapter_number |-> chapter.chapter_number,
                  question_id |-> qa.question_id,
                  options |-> qa.options]
             appended == Append(formatted_questions, question_data)
         IN  IF Len(appended) >= MaxListed THEN appended
             ELSE FormatChapter(chapter, Tail(qas), appended)

RECURSIVE FormatQuestions(_, _)
\* the outer loop over chapters, with its own break
FormatQuestions(questions_answers, formatted_questions) ==
    IF questions_answers = <<>> THEN formatted_questions
    ELSE LET chapter == Head(questions_answers)
             after == FormatChapter(chapter, chapter.questions_answers, formatted_questions)
         IN  IF Len(after) >= MaxListed THEN after
             ELSE FormatQuestions(Tail(questions_answers), after)

\* "list": formatted_questions[:40]
ResponseList(questions_answers) ==
    LET formatted_questions == FormatQuestions(questions_answers, <<>>)
    IN  SubSeq(formatted_questions, 1,
               IF Len(formatted_questions) < MaxListed
               THEN Len(formatted_questions) ELSE MaxListed)

format_api_response(r) ==
    LET st == runs[r].st
        api_response ==
            [user_id |-> st.user_id, book_id |-> st.book_id, created_on |-> st.created_on,
             status |-> "success", row_id |-> st.row_id,
             list |-> ResponseList(st.questions_answers)]
    IN
    /\ runs[r].pc = "format_api_response"
    /\ IF \/ st.user_id = "" \/ st.book_id = "" \/ st.questions_answers = <<>>
          \/ st.row_id = 0 \/ st.created_on = 0
       THEN Advance(r, "format_api_response",
                    [st EXCEPT !.error = "Missing data for formatting API response"], "END")
       ELSE Advance(r, "format_api_response", [st EXCEPT !.api_response = api_response], "END")
    /\ UNCHANGED <<files, index, top1, db, nextRow, started, lastRow, cursor, unitVars>>

----------------------------------------------------------------------------
(* Answer-validation workflow                                              *)

\* api_langgraph.validate_answers up to validation_app.invoke: a request with a
\* missing field is refused with 400 before the graph runs
StartValidation(r) ==
    /\ runs[r].pc \in {"idle", "returned"}
    /\ started < MaxRuns
    /\ \E user_id \in {"u1", ""}, row_id \in 0..nextRow, list \in AnswerLists :
          LET refused == user_id = "" \/ row_id = 0 \/ list = <<>>
          IN  runs' = [runs EXCEPT ![r] =
                          [kind |-> "val",
                           pc |-> IF refused THEN "returned"
                                  ELSE "fetch_questions_for_validation",
                           st |-> [EmptyState EXCEPT !.user_id = user_id, !.row_id = row_id,
                                                     !.user_answers_list = list],
                           trace |-> <<>>, no |-> started + 1, prior |-> 0,
                           indexed |-> FALSE, wrote |-> FALSE,
                           http |-> IF refused THEN 400 ELSE 0,
                           detail |-> IF refused THEN <<"Missing required fields.">>
                                      ELSE <<>>,
                           cause |-> ""]]
    /\ started' = started + 1
    /\ UNCHANGED <<files, index, top1, db, nextRow, lastRow, cursor, unitVars>>

fetch_questions_for_validation(r) ==
    LET st == runs[r].st
        done(s) == Advance(r, "fetch_questions_for_validation", s, "validate_answers")
        chapters_data == fetch_questions_from_db(st.row_id)
    IN
    /\ runs[r].pc = "fetch_questions_for_validation"
    /\ IF st.row_id = 0
       THEN done([st EXCEPT !.error = "row_id is missing for validation fetch"])
       ELSE \/ done([st EXCEPT !.error = "Error fetching questions for validation"])
            \/ IF chapters_data = <<>>
               THEN done([st EXCEPT !.error =
                              "No data found for the provided row_id for validation."])
               ELSE done([st EXCEPT !.chapters_data = chapters_data])
    /\ UNCHANGED <<files, index, top1, db, nextRow, started, lastRow, cursor, unitVars>>

RECURSIVE ValidateLoopSkipping(_, _, _, _, _)
\* a loop that passes over an entry with an unknown question_id
ValidateLoopSkipping(user_answers_list, question_map, llms, i, validated_results) ==
    IF i > Len(user_answers_list)
    THEN [kind |-> "ok", results |-> validated_results]
    ELSE IF user_answers_list[i].question_id = NoKey
    THEN [kind |-> "KeyError", results |-> <<>>]      \* user_answer["question_id"]
    ELSE LET question_id == PyStr(user_answers_list[i].question_id)
         IN  IF question_id \notin DOMAIN question_map
             THEN ValidateLoopSkipping(user_answers_list, question_map, llms, i + 1,
                                       validated_results)
             ELSE LET graded == GradeEntry(question_id, question_map[question_id],
                                           user_answers_list[i].user_answer, llms[i])
                  IN  IF graded.raised
                      THEN [kind |-> "raise", results |-> <<>>]
                      ELSE ValidateLoopSkipping(user_answers_list, question_map, llms,
                                                i + 1, Append(validated_results, graded))

RECURSIVE ValidateLoop(_, _, _, _, _)
\* the for loop of validate_answers from entry i on; llms[i] is the model's
\* response should entry i be delegated to it
ValidateLoop(user_answers_list, question_map, llms, i, validated_results) ==
    IF i > Len(user_answers_list)
    THEN [kind |-> "ok", results |-> validated_results]
    ELSE IF user_answers_list[i].question_id = NoKey
    THEN [kind |-> "KeyError", results |-> <<>>]      \* user_answer["question_id"]
    ELSE LET question_id == PyStr(user_answers_list[i].question_id)
         IN  IF question_id \notin DOMAIN question_map
             THEN [kind |-> "invalid", results |-> <<>>]
             ELSE LET graded == GradeEntry(question_id, question_map[question_id],
                                           user_answers_list[i].user_answer, llms[i])
                  IN  IF graded.raised
                      THEN [kind |-> "raise", results |-> <<>>]
                      ELSE ValidateLoop(user_answers_list, question_map, llms, i + 1,
                                        Append(validated_results, graded))

validate_answers(r) ==
    LET st == runs[r].st
        done(s) == Advance(r, "validate_answers", s, "format_validation_response")
    IN
    /\ runs[r].pc = "validate_answers"
    /\ IF st.user_answers_list = <<>> \/ st.chapters_data = <<>>
       THEN done([st EXCEPT !.error =
                      "Missing user_answers_list or chapters_data for validation"])
       ELSE \E llms \in [1..Len(st.user_answers_list) -> LLMResponses] :
               LET out == ValidateLoop(st.user_answers_list, QuestionMap(st.chapters_data),
                                       llms, 1, <<>>)
               IN  CASE out.kind = "invalid" ->
                            done([st EXCEPT !.error = "Invalid question_id"])
                     [] out.kind = "raise" -> Raise(r, "validate_answers")
                     [] out.kind = "KeyError" ->
                            RaiseInNode(r, "validate_answers", "KeyError")
                     [] OTHER -> done([st EXCEPT !.validated_results = out.results])
    /\ UNCHANGED <<files, index, top1, db, nextRow, started, lastRow, cursor, unitVars>>

format_validation_response(r) ==
    LET st == runs[r].st
        api_response ==
            [user_id |-> st.user_id, book_id |-> "", created_on |-> nextRow,
             status |-> "success", row_id |-> 0, list |-> st.validated_results]
    IN
    /\ runs[r].pc = "format_validation_response"
    /\ IF st.user_id = "" \/ st.validated_results = <<>>
       THEN Advance(r, "format_validation_response",
                    [st EXCEPT !.error =
                         "Missing user_id or validated_results for formatting validation response"],
                    "END")
       ELSE Advance(r, "format_validation_response",
                    [st EXCEPT !.api_response = api_response], "END")
    /\ UNCHANGED <<files, index, top1, db, nextRow, started, lastRow, cursor, unitVars>>

----------------------------------------------------------------------------
(* Outward surface                                                         *)

\* the tail of both handlers of api_langgraph.py: HTTPException(400) is raised
\* inside the try block and caught by `except Exception`, which raises 500
Respond(r) ==
    LET st == runs[r].st
        status == IF runs[r].pc = "raised" \/ st.error # "" THEN 500 ELSE 200
        \* str(HTTPException(400, detail)) is "400: " followed by the detail
        detail == IF runs[r].pc = "raised" THEN <<"Internal server error: ", "exception">>
                  ELSE IF st.error # "" THEN <<"Internal server error: ", "400: ", st.error>>
                  ELSE <<>>
        key == <<st.user_id, st.book_id>>
    IN
    /\ runs[r].pc \in {"END", "raised"}
    /\ runs' = [runs EXCEPT ![r] = [@ EXCEPT !.pc = "returned", !.http = status,
                                              !.detail = detail]]
    /\ lastRow' = IF runs[r].kind = "gen" /\ status = 200 /\ key \in Keys
                  THEN [lastRow EXCEPT ![key] = st.api_response.row_id]
                  ELSE lastRow
    /\ UNCHANGED <<files, index, top1, db, nextRow, started, cursor, unitVars>>

----------------------------------------------------------------------------
(* Specification of the two workflows                                      *)

UnitOff == unitIn = <<>> /\ unitOut = <<>> /\ unitPc = "off"

\* the collaborators before any request of this process
SharedInit ==
    /\ files = {}
    \* the vector store is persistent: it is empty or already holds another book
    /\ \/ index = <<>> /\ top1 = ""
       \/ index = <<[book_id |-> "b2", chapter_name |-> "c1"]>> /\ top1 = "b2"
    /\ db = [k \in Keys |-> NoRow]
    /\ nextRow = 1
    /\ started = 0
    /\ lastRow = [k \in Keys |-> 0]
    /\ cursor = NoResult

PipeInit ==
    /\ runs = [r \in Slots |-> IdleRun]
    /\ SharedInit

Init == PipeInit /\ UnitOff

Next ==
    \E r \in Slots :
        \/ StartGeneration(r)
        \/ prepare_input(r)
        \/ check_embeddings(r)
        \/ generate_embeddings(r)
        \/ generate_questions(r)
        \/ store_questions(r)
        \/ fetch_stored_questions(r)
        \/ format_api_response(r)
        \/ StartValidation(r)
        \/ fetch_questions_for_validation(r)
        \/ validate_answers(r)
        \/ format_validation_response(r)
        \/ Respond(r)

Spec == Init /\ [][Next]_vars

----------------------------------------------------------------------------
(* Unit harness: StoreQuestionsAnswers.store_questions_answers on its own   *)

MaxChapters == 3      \* chapters of a question set under test
MaxQuestions == 3     \* questions of one chapter under test

UnitChapter(n) ==
    [chapter_name |-> "c", chapter_number |-> 0,
     questions_answers |-> [i \in 1..n |-> QaText]]

\* question sets with 0..MaxChapters chapters of 0..MaxQuestions questions each
UnitQuestionSets ==
    UNION {{[c \in 1..n |-> UnitChapter(sizes[c])] : sizes \in [1..n -> 0..MaxQuestions]}
           : n \in 0..MaxChapters}

StoreInit ==
    /\ PipeInit /\ index = <<>>
    /\ unitIn \in UnitQuestionSets /\ unitOut = <<>> /\ unitPc = "ready"

\* store_questions_answers(user_id, book_id, qa_data) on an empty table:
\* unitOut is the "chapters" value of the JSON that is written
StoreUnit ==
    /\ unitPc = "ready"
    /\ unitOut' = IF unitIn = <<>> THEN <<>>
                  ELSE UpsertRow(NoRow, NumberChapters(unitIn, 1, FirstQuestionId), 1, 1).chapters
    /\ unitPc' = "done"
    /\ UNCHANGED <<unitIn, pipeVars>>

StoreNext == StoreUnit

SpecStore == StoreInit /\ [][StoreNext]_vars

----------------------------------------------------------------------------
(* Unit harness: grading one submitted answer with validate_answers         *)

MaxOptions == 3       \* options of a multiple-choice question under test

GradeOptionStrings == {<<"a">>, <<"A">>, <<" ","a"," ">>, <<"b">>, <<"1">>}
GradeOptionLists == UNION {[1..n -> GradeOptionStrings] : n \in 0..MaxOptions}

GradeMcqQuestions ==
    {[question |-> <<"q">>, question_type |-> qt, options |-> opts, answer |-> ans,
      question_id |-> FirstQuestionId] :
        qt \in {MCQ, mcq}, opts \in GradeOptionLists,
        ans \in {StrV(<<"a">>), StrV(<<"A"," ">>), StrV(<<"b">>), StrV(<<"c">>), IntV(1)}}

\* the MCQ of the question-generation prompt's schema: four options and an
\* integer answer
GradePromptQuestions ==
    {[question |-> <<"q">>, question_type |-> MCQ,
      options |-> << <<"a">>, <<"b">>, <<"c">>, <<"d">> >>, answer |-> IntV(k),
      question_id |-> FirstQuestionId] : k \in 0..3}

GradeMcqAnswers ==
    {StrV(<<"0">>), StrV(<<"1">>), StrV(<<"2">>), StrV(<<" ","1"," ">>), StrV(<<"+","1">>),
     StrV(<<"0","1">>), StrV(<<"-","1">>), StrV(<<"x">>), StrV(<<>>), StrV(<<"1",".","0">>),
     IntV(1), BoolV(TRUE)}

GradeOtherQuestions ==
    {[question |-> <<"q">>, question_type |-> TRUEFALSE, options |-> <<>>, answer |-> ans,
      question_id |-> FirstQuestionId] :
        ans \in {BoolV(TRUE), BoolV(FALSE), StrV(<<"t","r","u","e">>)}}
    \cup
    {[question |-> <<"q","_","_","_","_">>, question_type |-> qt, options |-> <<>>,
      answer |-> StrV(<<"x">>), question_id |-> FirstQuestionId] : qt \in {TEXT, FILLBLANK}}

GradeOtherAnswers ==
    {StrV(<<"T","R","U","E">>), StrV(<<" ","t","r","u","e"," ">>), StrV(<<"T","r","u","e">>),
     StrV(<<"f","a","l","s","e">>), StrV(<<"x">>), BoolV(TRUE)}

\* what the model may return for a grading prompt
GradeLLMResponses ==
    LLMResponses \cup
    {[kind |-> "notdict", score |-> 0, is_correct |-> NoneV],
     [kind |-> "obj", score |-> 11, is_correct |-> StrV(<<"T","r","u","e">>)],
     [kind |-> "obj", score |-> 5, is_correct |-> StrV(<<"y","e","s">>)],
     [kind |-> "obj", score |-> 7, is_correct |-> NoneV]}

GradeInit ==
    /\ PipeInit /\ index = <<>>
    /\ unitIn \in [qa : GradeMcqQuestions \cup GradePromptQuestions,
                    user_answer : GradeMcqAnswers]
                  \cup [qa : GradeOtherQuestions, user_answer : GradeOtherAnswers]
    /\ unitOut = <<>>
    /\ unitPc = "ready"

\* the stored question set and the batch of the unit under test
UnitChapters(qa) == <<[chapter_name |-> "c", chapter_number |-> 1, questions_answers |-> <<qa>>]>>
UnitBatch(user_answer) ==
    <<[question_id |-> IntV(FirstQuestionId), user_answer |-> user_answer]>>

\* the model endpoint is called for every question that is not an MCQ; for
\* an MCQ no call is made and no response is drawn
UnitResponses(qa) ==
    IF Lower(qa.question_type) = mcq
    THEN {[kind |-> "raise", score |-> 0, is_correct |-> NoneV]}
    ELSE GradeLLMResponses

\* validate_answers on a batch of one answer to the one stored question
GradeUnit ==
    /\ unitPc = "ready"
    /\ \E llm \in UnitResponses(unitIn.qa) :
          unitOut' = ValidateLoop(UnitBatch(unitIn.user_answer),
                                  QuestionMap(UnitChapters(unitIn.qa)), <<llm>>, 1, <<>>)
    /\ unitPc' = "done"
    /\ UNCHANGED <<unitIn, pipeVars>>

GradeNext == GradeUnit

SpecGrade == GradeInit /\ [][GradeNext]_vars

----------------------------------------------------------------------------
(* Unit harness: validate_answers on a batch over a stored question set     *)

MaxBatch == 2         \* answers in the batch under test

QaFill == [question |-> <<"q","_","_","_","_">>, question_type |-> FILLBLANK,
           options |-> <<>>, answer |-> StrV(<<"y">>), question_id |-> 0]

\* the stored set: one chapter holding questions 100 (MCQ), 101 (True/False),
\* 102 (Text), 103 (Fill in the blank), as store_questions_answers numbers them
BatchChapters ==
    NumberChapters(<<[chapter_name |-> "c1", chapter_number |-> 0,
                      questions_answers |-> <<QaMcq, QaTf, QaText, QaFill>>]>>,
                   1, FirstQuestionId)

BatchEntries ==
    {[question_id |-> IntV(100), user_answer |-> StrV(<<"1">>)],
     [question_id |-> IntV(101), user_answer |-> StrV(<<"T","R","U","E">>)],
     [question_id |-> StrV(<<"1","0","2">>), user_answer |-> StrV(<<"x">>)],
     [question_id |-> IntV(103), user_answer |-> StrV(<<"z">>)],
     [question_id |-> IntV(999), user_answer |-> StrV(<<"1">>)]}

\* the replies of the model endpoint: those of LLMResponses, a JSON value that
\* is no object, and an object whose score lies outside the range asked for
BatchResponses ==
    LLMResponses \cup {[kind |-> "notdict", score |-> 0, is_correct |-> NoneV],
                       [kind |-> "obj", score |-> 11, is_correct |-> BoolV(TRUE)]}

BatchInit ==
    /\ PipeInit /\ index = <<>>
    /\ unitIn \in UNION {[batch : [1..n -> BatchEntries], llms : [1..n -> BatchResponses]] :
                            n \in 1..MaxBatch}
    /\ unitOut = <<>>
    /\ unitPc = "ready"

\* the for loop of validate_answers over the batch; llms[i] is the reply the
\* model endpoint gives if entry i is sent to it
BatchUnit ==
    /\ unitPc = "ready"
    /\ unitOut' = ValidateLoop(unitIn.batch, QuestionMap(BatchChapters), unitIn.llms, 1, <<>>)
    /\ unitPc' = "done"
    /\ UNCHANGED <<unitIn, pipeVars>>

BatchNext == BatchUnit

SpecBatch == BatchInit /\ [][BatchNext]_vars

----------------------------------------------------------------------------
(* Unit harness: the list built by format_api_response                      *)

MaxFormatChapters == 3    \* chapters of the question set under test

\* stored questions whose tag and content disagree, and questions without tag
QaTfStr == [question |-> <<"q","5">>, question_type |-> TRUEFALSE,
            options |-> <<>>, answer |-> StrV(<<"T","r","u","e">>), question_id |-> 0]
QaBareMcq == [QaMcq EXCEPT !.question_type = <<>>]
QaBareTf == [QaTf EXCEPT !.question_type = <<>>]
QaBareFill == [QaFill EXCEPT !.question_type = <<>>]
QaBareText == [QaText EXCEPT !.question_type = <<>>]

FormatTemplates ==
    <<QaMcq, QaTf, QaText, QaFill, QaTfStr, QaBareMcq, QaBareTf, QaBareFill, QaBareText>>

\* numbers of questions a chapter under test holds
ChapterSizes == {0, 1, 20, 25, 39, 40, 41, 45}

\* a chapter of n questions; the question at position i is template i, cyclically
FormatChapterOf(k, n) ==
    [chapter_name |-> k, chapter_number |-> 0,
     questions_answers |->
        [i \in 1..n |-> FormatTemplates[((i - 1) % Len(FormatTemplates)) + 1]]]

\* stored question sets, numbered as store_questions_answers numbers them
FormatQuestionSets ==
    {NumberChapters([k \in DOMAIN sizes |-> FormatChapterOf(k, sizes[k])], 1, FirstQuestionId) :
        sizes \in UNION {[1..c -> ChapterSizes] : c \in 1..MaxFormatChapters}}

FormatInit ==
    /\ PipeInit /\ index = <<>>
    /\ unitIn \in FormatQuestionSets
    /\ unitOut = <<>>
    /\ unitPc = "ready"

\* the "list" of the api_response that format_api_response builds
FormatUnit ==
    /\ unitPc = "ready"
    /\ unitOut' = ResponseList(unitIn)
    /\ unitPc' = "done"
    /\ UNCHANGED <<unitIn, pipeVars>>

FormatNext == FormatUnit

SpecFormat == FormatInit /\ [][FormatNext]_vars

----------------------------------------------------------------------------
(* Two generation runs invoked concurrently                                 *)

ConcSlots == {1, 2}

\* the two requests: different users, different books, each with an upload
ConcRequest(r) ==
    IF r = 1 THEN [user_id |-> "u1", book_id |-> "b1"]
             ELSE [user_id |-> "u2", book_id |-> "b2"]

ConcInit ==
    /\ SharedInit /\ UnitOff
    /\ runs = [r \in ConcSlots |->
                 [IdleRun EXCEPT !.kind = "gen", !.pc = "prepare_input", !.no = r,
                                 !.st = [EmptyState EXCEPT
                                            !.user_id = ConcRequest(r).user_id,
                                            !.book_id = ConcRequest(r).book_id,
                                            !.file_content = 1]]]

\* fetch_questions_answers, first statement: self.cursor.execute(SELECT ...)
\* on the cursor that all runs share
fetch_execute(r) ==
    LET st == runs[r].st
        done(s) == Advance(r, "fetch_stored_questions", s, "format_api_response")
    IN
    /\ runs[r].pc = "fetch_stored_questions"
    /\ IF st.user_id = "" \/ st.book_id = ""
       THEN /\ done([st EXCEPT !.error = "Missing user_id or book_id for fetching questions"])
            /\ UNCHANGED cursor
       ELSE \/ /\ done([st EXCEPT !.error = "Error fetching stored questions"])  \* query raises
               /\ UNCHANGED cursor
            \/ /\ cursor' = [result |-> TRUE, row |-> db[<<st.user_id, st.book_id>>]]
               /\ runs' = [runs EXCEPT ![r] = [@ EXCEPT !.pc = "fetchone"]]
    /\ UNCHANGED <<files, index, top1, db, nextRow, started, lastRow, unitVars>>

\* fetch_questions_answers, second statement: self.cursor.fetchone() returns
\* whatever result the shared cursor holds now
fetch_fetchone(r) ==
    LET st == runs[r].st
        done(s) == Advance(r, "fetch_stored_questions", s, "format_api_response")
        stored_data == StoredData(cursor.row)
    IN
    /\ runs[r].pc = "fetchone"
    /\ IF ~cursor.result
       THEN /\ done([st EXCEPT !.error = "Error fetching stored questions"])
            /\ UNCHANGED cursor
       ELSE /\ done([st EXCEPT !.questions_answers = stored_data.chapters,
                               !.row_id = stored_data.row_id,
                               !.created_on = stored_data.created_on])
            /\ cursor' = Exhausted
    /\ UNCHANGED <<files, index, top1, db, nextRow, started, lastRow, unitVars>>

ConcNext ==
    \E r \in ConcSlots :
        \/ prepare_input(r)
        \/ check_embeddings(r)
        \/ generate_embeddings(r)
        \/ generate_questions(r)
        \/ store_questions(r)
        \/ fetch_execute(r)
        \/ fetch_fetchone(r)
        \/ format_api_response(r)

SpecConc == ConcInit /\ [][ConcNext]_vars

----------------------------------------------------------------------------
(* Unit harness: generate_questions_for_book                                *)

MaxGenChapters == 3   \* chapters of the book under test

\* the chapters of the book, in the order they appear in it
BookChapters == <<"c1", "c2", "c3", "c4">>

\* the chapter names as the vector store returns them: the first n chapters of
\* the book in any order
GenRetrievals ==
    UNION {{[i \in 1..n |-> BookChapters[p[i]]] :
               p \in {q \in [1..n -> 1..n] : \A i, j \in 1..n : q[i] = q[j] => i = j}} :
           n \in 1..MaxGenChapters}

GenInit ==
    /\ PipeInit /\ index = <<>>
    /\ unitIn \in UNION {[chapter_names : {names}, outs : [1..Len(names) -> ChapterOutputs]] :
                            names \in GenRetrievals}
    /\ unitOut = <<>>
    /\ unitPc = "ready"

GenUnit ==
    /\ unitPc = "ready"
    /\ unitOut' = generate_questions_for_book(unitIn.chapter_names, unitIn.outs)
    /\ unitPc' = "done"
    /\ UNCHANGED <<unitIn, pipeVars>>

GenNext == GenUnit

SpecGen == GenInit /\ [][GenNext]_vars
----------------------------------------------------------------------------
(* One request under fair scheduling of the graph engine                    *)

\* one node of a compiled graph, as invoke() executes it
RunStep(r) ==
    \/ prepare_input(r)
    \/ check_embeddings(r)
    \/ generate_embeddings(r)
    \/ generate_questions(r)
    \/ store_questions(r)
    \/ fetch_stored_questions(r)
    \/ format_api_response(r)
    \/ fetch_questions_for_validation(r)
    \/ validate_answers(r)
    \/ format_validation_response(r)

\* the persistent stores as an earlier process may have left them: book b1
\* indexed or not, a question set stored for (u1, b1) or not
LiveInit ==
    /\ runs = [r \in Slots |-> IdleRun]
    /\ files = {}
    /\ \/ index = <<>> /\ top1 = ""
       \/ index = <<[book_id |-> "b1", chapter_name |-> "c1"]>> /\ top1 = "b1"
    /\ \/ db = [k \in Keys |-> NoRow] /\ nextRow = 1
       \/ /\ db = [k \in Keys |-> IF k = <<"u1", "b1">>
                                  THEN UpsertRow(NoRow, BatchChapters, 1, 1) ELSE NoRow]
          /\ nextRow = 2
    /\ started = 0
    /\ lastRow = [k \in Keys |-> 0]
    /\ cursor = NoResult
    /\ UnitOff

\* one request, followed from the handler's entry to its response
LiveNext ==
    \E r \in Slots :
        \/ started = 0 /\ StartGeneration(r)
        \/ started = 0 /\ StartValidation(r)
        \/ RunStep(r)
        \/ Respond(r)

\* the nodes other than validate_answers
OtherSteps(r) ==
    \/ prepare_input(r)
    \/ check_embeddings(r)
    \/ generate_embeddings(r)
    \/ generate_questions(r)
    \/ store_questions(r)
    \/ fetch_stored_questions(r)
    \/ format_api_response(r)
    \/ fetch_questions_for_validation(r)
    \/ format_validation_response(r)

\* WF_vars(validate_answers(r)) written out: the node is enabled exactly when
\* the run stands at it
ValidateFair(r) ==
    \/ []<>(runs[r].pc # "validate_answers")
    \/ []<><<validate_answers(r)>>_vars

\* invoke() is a synchronous loop: once a node is due it is executed
SpecLive ==
    LiveInit /\ [][LiveNext]_vars
        /\ \A r \in Slots : WF_vars(OtherSteps(r)) /\ ValidateFair(r)


----------------------------------------------------------------------------
(* Properties                                                              *)

Steps(r) == {runs[r].trace[i].step : i \in 1..Len(runs[r].trace)}

\* file_content and s3_url are both given, or neither is
BadSource(st) == (st.file_content # 0) <=> (st.s3_url # <<>>)

\* C1: when both or neither of file_content and s3_url are given,
\* prepare_input sets error and no downstream step (check_embeddings included)
\* is executed in that run.
C1_NoDownstreamStep ==
    \A r \in Slots :
        (runs[r].kind = "gen" /\ BadSource(runs[r].st) /\ runs[r].trace # <<>>)
            => /\ runs[r].st.error # ""
               /\ Steps(r) = {"prepare_input"}

\* C2: once a step has set error, none of generate_questions, store_questions
\* and fetch_stored_questions is executed later in the run; and a run whose
\* generate_embeddings set error upserts no record.
C2_ShortCircuit ==
    \A r \in Slots :
        runs[r].kind = "gen" =>
            /\ \A i \in 1..Len(runs[r].trace) :
                   runs[r].trace[i].step \in
                       {"generate_questions", "store_questions", "fetch_stored_questions"}
                   => runs[r].trace[i].err_in = ""
            /\ (\E i \in 1..Len(runs[r].trace) :
                   /\ runs[r].trace[i].step = "generate_questions"
                   /\ runs[r].trace[i].err_in = "Error generating embeddings")
               => ~runs[r].wrote

\* C3: a generation run started for a (user_id, book_id) whose earlier run
\* succeeded, with the book's embeddings indexed, executes none of
\* generate_embeddings, generate_questions, store_questions, and its response
\* carries the row_id of the earlier response.
C3_Idempotent ==
    \A r \in Slots :
        (runs[r].kind = "gen" /\ runs[r].prior # 0 /\ runs[r].indexed)
            => /\ Steps(r) \cap {"generate_embeddings", "generate_questions",
                                 "store_questions"} = {}
               /\ runs[r].st.api_response.status = "success"
                      => runs[r].st.api_response.row_id = runs[r].prior

\* C4: when a generation run has ended (normally or by an exception), the
\* temporary file recorded in file_path no longer exists.
C4_FileCleanup ==
    \A r \in Slots :
        (runs[r].kind = "gen" /\ runs[r].pc \in {"END", "raised", "returned"}
            /\ runs[r].st.file_path # 0)
            => \A f \in files : f.path # runs[r].st.file_path

\* the batch holds a question_id that the fetched question set lacks
HasUnknownId(st) ==
    \E i \in 1..Len(st.user_answers_list) :
        /\ st.user_answers_list[i].question_id # NoKey
        /\ PyStr(st.user_answers_list[i].question_id) \notin DOMAIN QuestionMap(st.chapters_data)

\* C5: if a submitted entry names a question_id that is not in the fetched
\* question set, then once validate_answers has run the batch is aborted: no
\* validated_results and no api_response exist (no partial list), validate_answers
\* itself returns the error "Invalid question_id" unless an earlier step or
\* model call already failed, and the final state has error set.
C5_UnknownIdAborts ==
    \A r \in Slots :
        (runs[r].kind = "val" /\ HasUnknownId(runs[r].st) /\ "validate_answers" \in Steps(r))
            => /\ runs[r].st.validated_results = <<>>
               /\ runs[r].st.api_response = NoResponse
               /\ runs[r].pc \in {"format_validation_response", "END"}
                      => runs[r].st.error # ""
               /\ (runs[r].pc = "format_validation_response" /\ runs[r].st.chapters_data # <<>>)
                      => runs[r].st.error = "Invalid question_id"
               /\ runs[r].http # 200

\* C5 witness: a finished validation run whose first entry is a known
\* question and whose second entry is unknown
C5_Witness ==
    \E r \in Slots :
        /\ runs[r].kind = "val" /\ runs[r].pc = "END"
        /\ runs[r].st.chapters_data # <<>>
        /\ Len(runs[r].st.user_answers_list) = 2
        /\ PyStr(runs[r].st.user_answers_list[1].question_id)
               \in DOMAIN QuestionMap(runs[r].st.chapters_data)
        /\ runs[r].st.user_answers_list[2].question_id # NoKey
        /\ PyStr(runs[r].st.user_answers_list[2].question_id)
               \notin DOMAIN QuestionMap(runs[r].st.chapters_data)
        /\ runs[r].st.error # ""

RECURSIVE FlatQuestions(_)
\* the questions of a question set in chapter order, then in-chapter order
FlatQuestions(chapters) ==
    IF chapters = <<>> THEN <<>>
    ELSE Head(chapters).questions_answers \o FlatQuestions(Tail(chapters))

\* C6: in a stored question set the question_id values, read in chapter order
\* then in-chapter order, are 100, 101, 102, ... without gap or repetition.
C6_QuestionIds ==
    unitPc = "done" =>
        \A i \in 1..Len(FlatQuestions(unitOut)) :
            FlatQuestions(unitOut)[i].question_id = FirstQuestionId + i - 1

\* C6 witness: a stored set of several chapters, the second of which starts
\* past 100
C6_Witness ==
    /\ unitPc = "done"
    /\ Len(unitOut) >= 2
    /\ Len(unitOut[1].questions_answers) >= 2
    /\ Len(unitOut[2].questions_answers) >= 2
    /\ unitOut[2].questions_answers[1].question_id = FirstQuestionId + Len(unitOut[1].questions_answers)

\* C7: the row_id of a stored record never changes once it is assigned.
C7_RowIdImmutable ==
    [][\A k \in Keys : db[k].row_id # 0 => db'[k].row_id = db[k].row_id]_vars

\* the canonical correct answer the validator holds for the question under test
UnitCanonical == QuestionMap(UnitChapters(unitIn.qa))[DecStr(FirstQuestionId)].correct_answer

UnitIsMcq == Lower(unitIn.qa.question_type) = mcq

\* the submitted answer as text, without surrounding whitespace
UnitAnswerText == Strip(PyStr(unitIn.user_answer))

\* the one grading record produced
UnitGraded == unitOut.results[1]

\* C8 (as stated): for an MCQ with canonical index i, the answer str(i) with
\* any surrounding whitespace scores 10 / "true" and every other answer scores
\* 0 / "false", without an error.
C8_McqGradingAsStated ==
    (unitPc = "done" /\ UnitIsMcq /\ UnitCanonical # NoneV)
        => /\ unitOut.kind = "ok"
           /\ IF UnitAnswerText = UnitCanonical.s
              THEN UnitGraded.score = 10 /\ UnitGraded.is_correct = "true"
              ELSE UnitGraded.score = 0 /\ UnitGraded.is_correct = "false"

RECURSIVE StripZeros(_)
StripZeros(s) == IF Len(s) > 1 /\ Head(s) = "0" THEN StripZeros(Tail(s)) ELSE s

\* s is an integer literal denoting i: an optional sign, then decimal digits
\* that are str(i) up to leading zeros ("-" only before zero)
DenotesIndex(s, i) ==
    LET signed == s # <<>> /\ Head(s) \in {"+", "-"}
        digits == IF signed THEN Tail(s) ELSE s
    IN  /\ IsDigits(digits)
        /\ StripZeros(digits) = i.s
        /\ (s # <<>> /\ Head(s) = "-") => i.s = <<"0">>

\* C8 (amended): for an MCQ with canonical index i, an answer whose text
\* without surrounding whitespace is an integer literal denoting i (optional
\* sign, leading zeros allowed) scores 10 / "true"; every other answer, one that
\* is no integer included, scores 0 / "false"; grading never sets an error.
C8_McqGrading ==
    (unitPc = "done" /\ UnitIsMcq /\ UnitCanonical # NoneV)
        => /\ unitOut.kind = "ok"
           /\ IF DenotesIndex(UnitAnswerText, UnitCanonical)
              THEN UnitGraded.score = 10 /\ UnitGraded.is_correct = "true"
              ELSE UnitGraded.score = 0 /\ UnitGraded.is_correct = "false"

\* C8 witness: the canonical index 1 answered by " 1 " and graded correct
C8_Witness ==
    /\ unitPc = "done" /\ UnitIsMcq
    /\ UnitCanonical = IntV(1)
    /\ unitIn.user_answer = StrV(<<" ","1"," ">>)
    /\ UnitGraded.score = 10

\* str(x).strip().lower()
Normal(s) == Lower(Strip(s))

\* the 1-based positions of the options that equal the stored answer
MatchingOptions(qa) ==
    {j \in 1..Len(qa.options) : Normal(qa.options[j]) = Normal(PyStr(qa.answer))}

Paris == <<"P","a","r","i","s">>
Rome == <<"R","o","m","e">>
Berlin == <<"B","e","r","l","i","n">>
Madrid == <<"M","a","d","r","i","d">>

\* C9: for a stored MCQ the canonical correct answer is the smallest 0-based
\* index whose option equals the stored answer after trimming and lower-casing
\* both; if no option matches it is unset and every answer is graded 0 /
\* "false" without an error. Options Paris, Rome, Berlin, Madrid with answer
\* Berlin give 2.
C9_Canonicalization ==
    /\ (unitPc = "done" /\ UnitIsMcq)
        => IF MatchingOptions(unitIn.qa) # {}
           THEN /\ UnitCanonical.t = "int"
                /\ \E j \in MatchingOptions(unitIn.qa) :
                       /\ \A k \in MatchingOptions(unitIn.qa) : j <= k
                       /\ UnitCanonical.s = DecStr(j - 1)
           ELSE /\ UnitCanonical = NoneV
                /\ unitOut.kind = "ok"
                /\ UnitGraded.score = 0 /\ UnitGraded.is_correct = "false"
    /\ CorrectIndex([question |-> <<"q">>, question_type |-> MCQ,
                     options |-> <<Paris, Rome, Berlin, Madrid>>,
                     answer |-> StrV(Berlin), question_id |-> FirstQuestionId]) = IntV(2)

\* C9 witness: two options match after normalisation, the first of them at a
\* position past the start, and the canonical index is that first position
C9_Witness ==
    /\ unitPc = "done" /\ UnitIsMcq
    /\ Cardinality(MatchingOptions(unitIn.qa)) = 2
    /\ 1 \notin MatchingOptions(unitIn.qa)
    /\ UnitCanonical = IntV(1)
    /\ unitIn.qa.options[2] # PyStr(unitIn.qa.answer)

\* C10: for a True/False question whose canonical answer is true, an answer
\* equal to "true" up to case and surrounding whitespace is graded is_correct
\* "true", whatever the model endpoint returns.
C10_TrueFalseLocal ==
    (/\ unitPc = "done"
     /\ Lower(unitIn.qa.question_type) = truefalse
     /\ unitIn.qa.answer = BoolV(TRUE)
     /\ Normal(PyStr(unitIn.user_answer)) = true)
        => /\ unitOut.kind = "ok"
           /\ UnitGraded.is_correct = "true"

\* the stored question that entry i of the batch under test names
BatchKnown(i) == PyStr(unitIn.batch[i].question_id) \in DOMAIN QuestionMap(BatchChapters)
BatchQuestion(i) == QuestionMap(BatchChapters)[PyStr(unitIn.batch[i].question_id)]
BatchDelegated(i) == BatchKnown(i) /\ Lower(BatchQuestion(i).question_type) # mcq
BatchFreeText(i) == BatchKnown(i) /\ BatchQuestion(i).question_type \in {TEXT, FILLBLANK}
BatchUnparseable(i) == unitIn.llms[i].kind \in {"badjson", "notdict"}
BatchCallFails(i) == BatchDelegated(i) /\ unitIn.llms[i].kind = "raise"

\* C11: a reply of the model that is not the expected JSON object, given for a
\* Text or Fill-in-the-blank question, grades that question 0 / "false" and
\* nothing else: the batch ends by an exception only if a model call itself
\* failed, with "Invalid question_id" only if an id is unknown, and otherwise
\* every entry is graded, the others exactly as they are graded on their own.
C11_UnparseableReply ==
    unitPc = "done" =>
        LET n == Len(unitIn.batch) IN
        /\ unitOut.kind = "raise" => \E j \in 1..n : BatchCallFails(j)
        /\ unitOut.kind = "invalid" => \E j \in 1..n : ~BatchKnown(j)
        /\ unitOut.kind = "ok" =>
              /\ Len(unitOut.results) = n
              /\ \A i \in 1..n :
                    IF BatchFreeText(i) /\ BatchUnparseable(i)
                    THEN /\ unitOut.results[i].score = 0
                         /\ unitOut.results[i].is_correct = "false"
                    ELSE unitOut.results[i] =
                            ValidateLoop(<<unitIn.batch[i]>>, QuestionMap(BatchChapters),
                                         <<unitIn.llms[i]>>, 1, <<>>).results[1]
        /\ ((\A j \in 1..n : BatchKnown(j) /\ ~BatchCallFails(j))) => unitOut.kind = "ok"

\* C11 witness: the first answer, to the Text question, gets a reply that is
\* not JSON and is graded 0; the second answer is graded 10 by the model
C11_Witness ==
    /\ unitPc = "done"
    /\ Len(unitIn.batch) = 2
    /\ BatchKnown(1) /\ BatchQuestion(1).question_type = TEXT
    /\ unitIn.llms[1].kind = "badjson"
    /\ BatchKnown(2) /\ BatchDelegated(2)
    /\ unitOut.kind = "ok"
    /\ unitOut.results[1].score = 0 /\ unitOut.results[1].is_correct = "false"
    /\ unitOut.results[2].score = 10 /\ unitOut.results[2].is_correct = "true"

\* C12: the list of the generation response is the first min(40, N) questions
\* of the flattened stored sequence (chapter order, then in-chapter order), N
\* being the number of stored questions; 45 questions give exactly the first 40.
C12_Truncation ==
    unitPc = "done" =>
        LET flat == FlatQuestions(unitIn)
            N == Len(flat)
            k == IF N < 40 THEN N ELSE 40
        IN  /\ Len(unitOut) = k
            /\ \A i \in 1..k : /\ unitOut[i].question_id = flat[i].question_id
                               /\ unitOut[i].question = flat[i].question
            /\ N = 45 => Len(unitOut) = 40 /\ unitOut[40].question_id = 139

\* C12 witness: 45 questions spread over several chapters, listed up to the
\* 40th, which lies in a later chapter than the first
C12_Witness ==
    /\ unitPc = "done"
    /\ Len(FlatQuestions(unitIn)) = 45
    /\ Len(unitIn) >= 2
    /\ Len(unitOut) = 40
    /\ unitOut[1].chapter_name # unitOut[40].chapter_name

\* C13: whatever fault a collaborator shows, a step returns a state (with
\* error set) and no exception leaves a step: no run is ended by an exception.
C13_NoStepRaises ==
    \A r \in Slots : runs[r].pc # "raised"

\* C14: within one run, a step that receives a state with error set returns a
\* state with error set; error is never cleared, up to the end of the run.
C14_ErrorMonotonic ==
    [][\A r \in Slots :
          (runs[r].st.error # "" /\ runs'[r].no = runs[r].no) => runs'[r].st.error # ""]_vars

\* C14 witness: a finished run in which a step set error and at least two
\* later steps ran on the state carrying it
C14_Witness ==
    \E r \in Slots :
        /\ runs[r].pc = "END"
        /\ runs[r].st.error # ""
        /\ \E i \in 1..Len(runs[r].trace) :
              /\ i + 1 <= Len(runs[r].trace)
              /\ runs[r].trace[i].err_in # ""

\* the run has ended with error set by an input or validation fault: both or
\* neither input source, an unknown question_id, or no data for the row_id
InputFault(r) ==
    /\ runs[r].pc = "END"
    /\ runs[r].st.error \in
          {"Either an uploaded file or an S3 URL is required",
           "Provide either an uploaded file or an S3 URL, not both",
           "Invalid question_id",
           "No data found for the provided row_id for validation."}

\* C15: a run that ends with error set by an input or validation fault is
\* answered with a client error (400) whose message is the error text verbatim.
C15_ClientError ==
    [][\A r \in Slots :
          (InputFault(r) /\ runs'[r].pc = "returned")
              => /\ runs'[r].http = 400
                 /\ runs'[r].detail = <<runs[r].st.error>>]_vars

\* C16: two runs for different (user_id, book_id) keys do not exchange data:
\* the row_id a run holds in its state is the row_id of no other key's record.
C16_Isolation ==
    \A r \in DOMAIN runs :
        (runs[r].kind = "gen" /\ runs[r].st.row_id # 0)
            => \A k \in Keys :
                   db[k].row_id = runs[r].st.row_id
                       => k = <<runs[r].st.user_id, runs[r].st.book_id>>

\* run r takes the fetch_stored_questions step, without error so far, for a
\* (user_id, book_id) that has no record in the question store
RefetchWithoutRecord(r) ==
    /\ runs[r].pc = "fetch_stored_questions"
    /\ runs'[r].pc = "format_api_response"
    /\ runs[r].st.error = ""
    /\ <<runs[r].st.user_id, runs[r].st.book_id>> \in Keys
    /\ db[<<runs[r].st.user_id, runs[r].st.book_id>>].row_id = 0

\* C17: when the question store holds no record for (user_id, book_id),
\* fetch_stored_questions itself sets error and leaves questions_answers,
\* row_id and created_on as they were.
C17_NotFound ==
    [][\A r \in Slots :
          RefetchWithoutRecord(r)
              => /\ runs'[r].st.error # ""
                 /\ runs'[r].st.questions_answers = runs[r].st.questions_answers
                 /\ runs'[r].st.row_id = runs[r].st.row_id
                 /\ runs'[r].st.created_on = runs[r].st.created_on]_vars

\* C18: in the formatted list a question that carries a stored question_type
\* keeps it; an untagged question gets MCQ if it has options, else True/False
\* if its answer is a boolean, else Fill_in_the_blanks if its text contains
\* "___", else Text.
C18_KeepsTag ==
    unitPc = "done" =>
        \A i \in 1..Len(unitOut) :
            LET qa == FlatQuestions(unitIn)[i] IN
            IF qa.question_type # <<>>
            THEN unitOut[i].question_type = qa.question_type
            ELSE unitOut[i].question_type =
                    (IF qa.options # <<>> THEN MCQ
                     ELSE IF qa.answer.t = "bool" THEN TRUEFALSE
                     ELSE IF Contains(qa.question, <<"_","_","_">>) THEN FILLBLANK
                     ELSE TEXT)

\* the model output for chapter c of the book under test
OutputFor(c) ==
    unitIn.outs[CHOOSE i \in 1..Len(unitIn.chapter_names) : unitIn.chapter_names[i] = c]

\* the chapters of the book under test whose output is usable, in book order
UsableInBookOrder ==
    LET Usable(c) == /\ \E i \in 1..Len(unitIn.chapter_names) : unitIn.chapter_names[i] = c
                     /\ OutputFor(c) = "ok"
    IN  SelectSeq(BookChapters, Usable)

\* C19: a chapter whose model output is empty, is no JSON or lacks a key is
\* skipped, and every other chapter of the book is included, in book order.
C19_SkipsBadChapters ==
    unitPc = "done" =>
        /\ Len(unitOut) = Len(UsableInBookOrder)
        /\ \A i \in 1..Len(unitOut) : unitOut[i].chapter_name = UsableInBookOrder[i]

\* the names of the steps run r executed after check_embeddings, in order
AfterCheck(r) == [i \in 1..(Len(runs[r].trace) - 2) |-> runs[r].trace[i + 2].step]

\* s is an initial part of t
IsPrefix(s, t) == Len(s) <= Len(t) /\ \A i \in 1..Len(s) : s[i] = t[i]

\* C20: after check_embeddings has returned, a run with error set goes to END
\* and executes no further step; otherwise, with embeddings_exist true, the
\* next step is fetch_stored_questions and generate_embeddings,
\* generate_questions, store_questions are never executed; otherwise the next
\* steps are generate_embeddings, generate_questions, store_questions,
\* fetch_stored_questions, in exactly that order.
C20_Routing ==
    \A r \in Slots :
        (runs[r].kind = "gen" /\ Len(runs[r].trace) >= 2) =>
            LET st == runs[r].st
                routed == runs[r].pc \notin {"raised", "returned"}
            IN  /\ runs[r].trace[2].step = "check_embeddings"
                /\ (Len(runs[r].trace) = 2 /\ routed) =>
                       runs[r].pc = (IF st.error # "" THEN "END"
                                     ELSE IF st.embeddings_exist THEN "fetch_stored_questions"
                                     ELSE "generate_embeddings")
                /\ Len(runs[r].trace) >= 3 =>
                       /\ runs[r].trace[3].err_in = ""
                       /\ IF st.embeddings_exist
                          THEN IsPrefix(AfterCheck(r),
                                        <<"fetch_stored_questions", "format_api_response">>)
                          ELSE IsPrefix(AfterCheck(r),
                                        <<"generate_embeddings", "generate_questions",
                                          "store_questions", "fetch_stored_questions",
                                          "format_api_response">>)

\* C20 witness: a finished run that took the skip branch, started after an
\* earlier run for the same key went through the whole generation branch
C20_Witness ==
    \E r \in Slots :
        /\ runs[r].kind = "gen" /\ runs[r].pc = "END"
        /\ runs[r].st.embeddings_exist
        /\ AfterCheck(r) = <<"fetch_stored_questions", "format_api_response">>
        /\ runs[r].prior # 0

\* C21: in both workflows the formatting step (format_api_response,
\* format_validation_response) is executed only on a state whose error is
\* unset; a run with error set after the preceding step ends without it.
C21_GuardBeforeFormat ==
    \A r \in Slots :
        \A i \in 1..Len(runs[r].trace) :
            runs[r].trace[i].step \in {"format_api_response", "format_validation_response"}
                => runs[r].trace[i].err_in = ""

\* C22: when prepare_input returns an error state, no temporary file of the
\* run is left on disk, whatever raised after the file was created (a failing
\* write of the input bytes included).
C22_TempFileDeleted ==
    [][\A r \in Slots :
          (/\ runs[r].pc = "prepare_input"
           /\ runs'[r].pc = "check_embeddings"
           /\ runs'[r].st.error # "")
              => \A f \in files' : f.path # runs[r].no]_vars

\* C23: no step mutates its input in place. store_questions does not assign
\* questions_answers: the chapter list of the state it returns is the very
\* list object of the state it was given, so that list must read the same
\* after the step as before it.
C23_NoInPlaceMutation ==
    [][\A r \in Slots :
          (runs[r].pc = "store_questions" /\ runs'[r].pc = "fetch_stored_questions")
              => runs'[r].st.questions_answers = runs[r].st.questions_answers]_vars

\* C24: every record of validated_results has a score that is an integer from
\* 0 to 10, whatever the question type and whatever the model endpoint replied
\* for a Text or Fill-in-the-blank question.
C24_ScoreRange ==
    (unitPc = "done" /\ unitOut.kind = "ok") =>
        \A i \in 1..Len(unitOut.results) :
            unitOut.results[i].score \in 0..10

\* the positions at which a run is inside a compiled graph
NodePcs ==
    {"prepare_input", "check_embeddings", "generate_embeddings", "generate_questions",
     "store_questions", "fetch_stored_questions", "format_api_response",
     "fetch_questions_for_validation", "validate_answers", "format_validation_response"}

\* C25: every run of either graph terminates: no step is executed twice, and
\* unless a collaborator call fails to return, a run that has entered the
\* graph reaches the terminal marker and returns a final state.
C25_Terminates ==
    /\ [](\A r \in Slots :
             \A i, j \in 1..Len(runs[r].trace) :
                 runs[r].trace[i].step = runs[r].trace[j].step => i = j)
    /\ \A r \in Slots :
           (runs[r].pc \in NodePcs)
               ~> (runs[r].pc = "END"
                      \/ (runs[r].pc = "raised" /\ runs[r].cause = "collaborator"))

\* generation run r has ended, and every step before format_api_response
\* returned without error: the inputs were valid and each collaborator call
\* succeeded
AllStepsSucceeded(r) ==
    /\ runs[r].kind = "gen" /\ runs[r].pc = "END"
    /\ Len(runs[r].trace) >= 3
    /\ runs[r].trace[Len(runs[r].trace)].step = "format_api_response"
    /\ runs[r].trace[Len(runs[r].trace)].err_in = ""

\* C26: a generation run with one valid input source, non-empty book_id and
\* user_id and collaborators that all succeed ends with api_response of status
\* success and error unset, also when the book's embeddings exist already and
\* no question set is stored yet for this user_id.
C26_GenerationCompletes ==
    \A r \in Slots :
        AllStepsSucceeded(r)
            => /\ runs[r].st.error = ""
               /\ runs[r].st.api_response.status = "success"

\* C27: first error wins: once a step of a run has set error, no later step of
\* the run replaces the message, so the final state carries the message of the
\* first step that set it.
C27_FirstErrorWins ==
    [][\A r \in Slots :
          (runs[r].st.error # "" /\ runs'[r].no = runs[r].no)
              => runs'[r].st.error = runs[r].st.error]_vars

\* C28: in the final state of a run, error and api_response are never both
\* set: a run that ends with error set carries no success payload.
C28_ErrorExcludesResponse ==
    \A r \in Slots :
        (runs[r].pc = "END" /\ runs[r].st.error # "")
            => runs[r].st.api_response = NoResponse

\* the stored question is an MCQ whose answer is an integer index into its
\* four options
UnitIndexAnswer ==
    /\ UnitIsMcq
    /\ Len(unitIn.qa.options) = 4
    /\ unitIn.qa.answer \in {IntV(k) : k \in 0..3}

\* C29: for a stored MCQ whose answer is an integer index into its four
\* options, the canonical correct index is that integer, and the answer that
\* submits this index is graded 10 / "true".
C29_IndexAnswer ==
    (unitPc = "done" /\ UnitIndexAnswer)
        => /\ UnitCanonical = unitIn.qa.answer
           /\ PyStr(unitIn.user_answer) = PyStr(unitIn.qa.answer)
                  => /\ unitOut.kind = "ok"
                     /\ UnitGraded.score = 10
                     /\ UnitGraded.is_correct = "true"

\* run r is about to execute generate_questions on a state without error that
\* names a book and a user
GenerationDue(r) ==
    /\ runs[r].pc = "generate_questions"
    /\ runs[r].st.error = ""
    /\ runs[r].st.book_id # "" /\ runs[r].st.user_id # ""

\* C30: a positive total_questions does not by itself make Question
\* Generation fail: wherever the step is due on a state that carries one, it
\* can complete without setting error, as it can without total_questions.
C30_TotalQuestionsAccepted ==
    \A r \in Slots :
        (GenerationDue(r) /\ runs[r].st.total_questions > 0)
            => ENABLED (generate_questions(r) /\ runs'[r].st.error = "")

\* C31: a book's chapters are indexed at most once: however many generation
\* runs name the same book_id, and however their check_embeddings and
\* generate_embeddings steps follow one another, the vector index never holds
\* a chapter document of the book more than once.
C31_IndexedOnce ==
    \A i, j \in 1..Len(index) :
        (index[i].book_id = index[j].book_id
            /\ index[i].chapter_name = index[j].chapter_name) => i = j

====
